---- MODULE Spec2Model ----
(***************************************************************************)
(* The task REST API of src/app.py: one "tasks" table behind a psycopg2    *)
(* ThreadedConnectionPool, and the five Flask handlers over it.            *)
(*                                                                         *)
(* Values.  Python None, JSON null and SQL NULL are all NULL.  A string of *)
(* a text field is Str(s).  A string of a date field is Text(cs), cs its   *)
(* characters, so that the DATE input conversion and strftime are          *)
(* computed, not assumed.  A stored DATE is a record [y, m, d].            *)
(*                                                                         *)
(* A handler is one step: the statement it sends is a single transaction,  *)
(* and the step ends with the response.  The specifications differ in the  *)
(* request bodies they send:                                               *)
(*   Spec        bodies that make handlers fail; the database may fail     *)
(*   SpecDates   the two date fields and a status                          *)
(*   SpecEnums   priority and status                                       *)
(*   SpecCreate  well-formed values of all seven fields                    *)
(*   SpecWhole   bodies with one field the statement accepts and one it    *)
(*               rejects                                                   *)
(*   SpecClock   a title or a status, while the clock advances             *)
(*   SpecTxn     two threads, each handler in steps: receive, execute,     *)
(*               commit, respond                                           *)
(*   SpecPage    the page's script and the server, fetches in flight       *)
(*   SpecViews   the page opened on a store other clients have written     *)
(*   SpecForm    fields given as null, by other clients and by the form    *)
(***************************************************************************)
EXTENDS Integers, Sequences, FiniteSets, TLC

VARIABLES
    tasks,          \* the rows of table tasks: id -> row
    tasks_id_seq,   \* last value handed out by the SERIAL sequence of tasks.id
    used,           \* connections checked out of db_pool (len(db_pool._used))
    idle,           \* connections idle in db_pool (len(db_pool._pool))
    dbUp,           \* whether the database server answers
    now,            \* CURRENT_TIMESTAMP of the database
    last,           \* the request handled last, and its response
    txn,            \* per worker thread: the request it is handling, step by step
    net,            \* the requests and responses in flight between page and server
    ctasks,         \* the page's variable tasks: the JSON value assigned last
    calendar,       \* what the page's calendar shows: task id -> the day it is under
    view,           \* the task views: the one displayed, and the cards each holds
    timer           \* the page's one-second timer: "none" (no page), "pending", "fired"

vars == <<tasks, tasks_id_seq, used, idle, dbUp, now, last, txn, net, ctasks, calendar,
          view, timer>>

-----------------------------------------------------------------------------
(* Bounds of the model *)

\* ids the sequence may hand out under Spec
MaxId == 2
\* ids the sequence may hand out under the specifications with richer bodies
MaxCreated == 1
\* ticks of the database clock
MaxClock == 1
\* requests and responses in flight between the page and the server
MaxInFlight == 2

(* Program constants *)

MINCONN == 1
MAXCONN == 20
\* threads of one gunicorn worker; each worker process has its own db_pool,
\* and the model is of one worker
THREADS == 2

-----------------------------------------------------------------------------
(* Values *)

NULL == [null |-> TRUE]
Str(s) == [s |-> s]
Text(cs) == [c |-> cs]

\* The options of the form's status and priority selects
StatusEnum == {Str("todo"), Str("in_progress"), Str("done")}
PriorityEnum == {Str("low"), Str("medium"), Str("high"), Str("urgent")}

\* '' where the code compares a date parameter with it, or defaults to it
EmptyText == Text(<<>>)

Digits == <<"0", "1", "2", "3", "4", "5", "6", "7", "8", "9">>
IsDigit(c) == \E i \in 1..10 : Digits[i] = c
DigitVal(c) == (CHOOSE i \in 1..10 : Digits[i] = c) - 1

RECURSIVE ToNat(_)
ToNat(cs) ==
    IF cs = <<>> THEN 0
    ELSE ToNat(SubSeq(cs, 1, Len(cs) - 1)) * 10 + DigitVal(cs[Len(cs)])

AllDigits(cs) == \A i \in 1..Len(cs) : IsDigit(cs[i])

IsLeap(y) == (y % 4 = 0 /\ y % 100 # 0) \/ y % 400 = 0
DaysIn(y, m) ==
    IF m = 2 THEN (IF IsLeap(y) THEN 29 ELSE 28)
    ELSE IF m \in {4, 6, 9, 11} THEN 30 ELSE 31

\* The ISO form year-month-day of PostgreSQL's DATE input: the fields are
\* split at the two dashes; month and day may be written without a leading
\* zero.  Of the other texts the model offers PostgreSQL accepts 'infinity'
\* and rejects the rest.
DateFields(cs) ==
    LET dashes == {i \in 1..Len(cs) : cs[i] = "-"}
        i1 == CHOOSE i \in dashes : \A j \in dashes : i <= j
        i2 == CHOOSE i \in dashes : \A j \in dashes : j <= i
    IN  <<SubSeq(cs, 1, i1 - 1), SubSeq(cs, i1 + 1, i2 - 1), SubSeq(cs, i2 + 1, Len(cs))>>

DateSyntaxOk(cs) ==
    /\ Cardinality({i \in 1..Len(cs) : cs[i] = "-"}) = 2
    /\ LET f == DateFields(cs)
       IN  /\ Len(f[1]) = 4 /\ Len(f[2]) \in 1..2 /\ Len(f[3]) \in 1..2
           /\ AllDigits(f[1]) /\ AllDigits(f[2]) /\ AllDigits(f[3])

DateValid(cs) ==
    /\ DateSyntaxOk(cs)
    /\ LET f == DateFields(cs)
           y == ToNat(f[1])   m == ToNat(f[2])   d == ToNat(f[3])
       IN  y >= 1 /\ m \in 1..12 /\ d \in 1..DaysIn(y, m)

\* The DATE a text converts to (defined when DateValid).
date_in(cs) ==
    LET f == DateFields(cs)
    IN  [y |-> ToNat(f[1]), m |-> ToNat(f[2]), d |-> ToNat(f[3])]

\* n written in decimal, zero-padded to w characters.
RECURSIVE Pad(_, _)
Pad(n, w) ==
    IF w = 0 THEN <<>> ELSE Append(Pad(n \div 10, w - 1), Digits[(n % 10) + 1])

\* strftime with '%Y-%-m-%-d': month and day without their leading zero
strftimeUnpadded(dt) == Pad(dt.y, 4) \o <<"-">> \o Pad(dt.m, IF dt.m < 10 THEN 1 ELSE 2) \o <<"-">> \o Pad(dt.d, IF dt.d < 10 THEN 1 ELSE 2)

\* date.strftime('%Y-%m-%d')
strftime(dt) == Pad(dt.y, 4) \o <<"-">> \o Pad(dt.m, 2) \o <<"-">> \o Pad(dt.d, 2)

-----------------------------------------------------------------------------
(* Request bodies: request.json *)

\* The body is not parseable JSON: request.json raises.
Malformed == [kind |-> "malformed", obj |-> <<>>]
\* The body is the JSON value null: request.json is None.
JsonNull == [kind |-> "null", obj |-> <<>>]
\* The body is a JSON object.
Object(f) == [kind |-> "object", obj |-> f]

\* dict.get(key, default)
Get(data, key, default) ==
    IF key \in DOMAIN data.obj THEN data.obj[key] ELSE default

\* Python truthiness of a date field's JSON string or null
Truthy(v) == v # NULL /\ v # EmptyText


\* The date texts of the model
D_2024_02_15 == <<"2", "0", "2", "4", "-", "0", "2", "-", "1", "5">>
\* the same day, written without leading zeros
D_2024_2_15 == <<"2", "0", "2", "4", "-", "2", "-", "1", "5">>
D_2024_03_01 == <<"2", "0", "2", "4", "-", "0", "3", "-", "0", "1">>
\* no such day
D_2024_02_30 == <<"2", "0", "2", "4", "-", "0", "2", "-", "3", "0">>
\* the day after
D_2024_03_02 == <<"2", "0", "2", "4", "-", "0", "3", "-", "0", "2">>
\* one of the special inputs of PostgreSQL's DATE
D_infinity == <<"i", "n", "f", "i", "n", "i", "t", "y">>

\* The DATE 'infinity': later than every day
Infinity == [infinity |-> TRUE]

-----------------------------------------------------------------------------
(* The statements, as PostgreSQL evaluates them after psycopg2 has written  *)
(* each parameter into the statement text: None as NULL, a str as a quoted  *)
(* literal of unknown type.                                                 *)

\* COALESCE(p, col)
COALESCE(p, col) == IF p # NULL THEN p ELSE col

\* The texts the requests of the model carry in a date field, each converted
\* once: its DATE, or NULL where PostgreSQL rejects the text.
DateTexts ==
    {<<>>, D_2024_02_15, D_2024_2_15, D_2024_03_01, D_2024_03_02, D_2024_02_30, D_infinity}
Converted ==
    [cs \in DateTexts |-> IF cs = D_infinity THEN Infinity
                          ELSE IF DateValid(cs) THEN date_in(cs) ELSE NULL]

\* A quoted literal used where a DATE is expected is converted when the
\* statement is analysed, whatever branch is taken when it runs.
DateLiteralOk(p) == p = NULL \/ Converted[p.c] # NULL
DateOf(p) == IF p = NULL THEN NULL ELSE Converted[p.c]

\* The parameter tuple of the INSERT of add_task (defined when data is an
\* object with a title).
InsertParams(data) ==
    [title         |-> data.obj["title"],
     description   |-> Get(data, "description", Str("")),
     due_date      |-> IF Truthy(Get(data, "due_date", NULL))
                       THEN Get(data, "due_date", NULL) ELSE NULL,
     assigned_date |-> IF Truthy(Get(data, "assigned_date", NULL))
                       THEN Get(data, "assigned_date", NULL) ELSE NULL,
     priority      |-> Get(data, "priority", Str("medium")),
     status        |-> Get(data, "status", Str("todo")),
     notes         |-> Get(data, "notes", Str(""))]

InsertAnalysed(p) == DateLiteralOk(p.due_date) /\ DateLiteralOk(p.assigned_date)

\* The table with NOT NULL on title alone
InsertNotNullTitleOnly(p) == p.title # NULL

\* title, priority and status are NOT NULL.
InsertNotNull(p) == p.title # NULL /\ p.priority # NULL /\ p.status # NULL

\* the id taken as one more than the largest id in the table
nextvalOfLargestId ==
    IF DOMAIN tasks = {} THEN 1
    ELSE (CHOOSE i \in DOMAIN tasks : \A j \in DOMAIN tasks : j <= i) + 1

\* nextval('tasks_id_seq'), the default of the SERIAL column id
nextval == tasks_id_seq + 1

\* The row INSERT ... RETURNING id stores; created_at and updated_at take
\* their DEFAULT CURRENT_TIMESTAMP.
InsertRow(id, p) ==
    [id            |-> id,
     title         |-> p.title,
     description   |-> p.description,
     due_date      |-> DateOf(p.due_date),
     assigned_date |-> DateOf(p.assigned_date),
     priority      |-> p.priority,
     status        |-> p.status,
     notes         |-> p.notes,
     created_at    |-> now,
     updated_at    |-> now]

\* The parameter tuple of the UPDATE of update_task (defined when data is an
\* object).  Each date has two parameters: the one compared with '' and the
\* one given to COALESCE.
UpdateParams(data) ==
    [title          |-> Get(data, "title", NULL),
     description    |-> Get(data, "description", NULL),
     due_date1      |-> Get(data, "due_date", EmptyText),
     due_date2      |-> Get(data, "due_date", NULL),
     assigned_date1 |-> Get(data, "assigned_date", EmptyText),
     assigned_date2 |-> Get(data, "assigned_date", NULL),
     priority       |-> Get(data, "priority", NULL),
     status         |-> Get(data, "status", NULL),
     notes          |-> Get(data, "notes", NULL)]

\* no literal is converted before the branch that uses it is taken
UpdateAnalysedLazily(p) == TRUE

UpdateAnalysed(p) == DateLiteralOk(p.due_date2) /\ DateLiteralOk(p.assigned_date2)

\* the CASE with a null taken as equal to ''
DateCaseNullAsEmpty(p1, p2, col) ==
    IF p1 = EmptyText \/ p1 = NULL THEN NULL ELSE COALESCE(DateOf(p2), col)

\* CASE WHEN p1 = '' THEN NULL ELSE COALESCE(p2, col) END
\* (NULL = '' is not true).
DateCase(p1, p2, col) ==
    IF p1 = EmptyText THEN NULL ELSE COALESCE(DateOf(p2), col)

\* the SET list without updated_at = CURRENT_TIMESTAMP
UpdateRowNotStamped(row, p) ==
    [id            |-> row.id,
     title         |-> COALESCE(p.title, row.title),
     description   |-> COALESCE(p.description, row.description),
     due_date      |-> DateCase(p.due_date1, p.due_date2, row.due_date),
     assigned_date |-> DateCase(p.assigned_date1, p.assigned_date2, row.assigned_date),
     priority      |-> COALESCE(p.priority, row.priority),
     status        |-> COALESCE(p.status, row.status),
     notes         |-> COALESCE(p.notes, row.notes),
     created_at    |-> row.created_at,
     updated_at    |-> row.updated_at]

\* The SET list of the UPDATE applied to one row.
UpdateRow(row, p) ==
    [id            |-> row.id,
     title         |-> COALESCE(p.title, row.title),
     description   |-> COALESCE(p.description, row.description),
     due_date      |-> DateCase(p.due_date1, p.due_date2, row.due_date),
     assigned_date |-> DateCase(p.assigned_date1, p.assigned_date2, row.assigned_date),
     priority      |-> COALESCE(p.priority, row.priority),
     status        |-> COALESCE(p.status, row.status),
     notes         |-> COALESCE(p.notes, row.notes),
     created_at    |-> row.created_at,
     updated_at    |-> now]

\* rowcount taken to be 1 whether or not a row matched
RowCountAssumed(task_id) == 1

\* cur.rowcount after UPDATE/DELETE ... WHERE id = task_id
RowCount(task_id) == IF task_id \in DOMAIN tasks THEN 1 ELSE 0

\* The table after UPDATE ... WHERE id = task_id
UpdateTable(task_id, p) ==
    [i \in DOMAIN tasks |-> IF i = task_id THEN UpdateRow(tasks[i], p) ELSE tasks[i]]

\* DELETE FROM tasks, the WHERE clause lost
DeleteTableNoWhere(task_id) == <<>>

\* The table after DELETE FROM tasks WHERE id = task_id
DeleteTable(task_id) == [i \in DOMAIN tasks \ {task_id} |-> tasks[i]]

\* The table after the INSERT
InsertTable(id, p) ==
    [i \in DOMAIN tasks \cup {id} |-> IF i = id THEN InsertRow(id, p) ELSE tasks[i]]

\* SELECT * FROM tasks ORDER BY id
RECURSIVE OrderById(_)
OrderById(ids) ==
    IF ids = {} THEN <<>>
    ELSE LET lo == CHOOSE i \in ids : \A j \in ids : i <= j
         IN  <<tasks[lo]>> \o OrderById(ids \ {lo})

\* The datetime.date psycopg2 hands to get_tasks for a DATE: date.max for
\* 'infinity'.
typecast_date(v) == IF v = Infinity THEN [y |-> 9999, m |-> 12, d |-> 31] ELSE v

\* A row as get_tasks serialises it: a date that is set becomes its
\* strftime('%Y-%m-%d') text.
Serialise(row) ==
    [row EXCEPT
        !.due_date = IF row.due_date # NULL
                     THEN Text(strftime(typecast_date(row.due_date))) ELSE NULL,
        !.assigned_date = IF row.assigned_date # NULL
                          THEN Text(strftime(typecast_date(row.assigned_date))) ELSE NULL]

\* The JSON array GET /api/tasks answers with.
TaskList ==
    LET rows == OrderById(DOMAIN tasks)
    IN  [i \in 1..Len(rows) |-> Serialise(rows[i])]

-----------------------------------------------------------------------------
(* The connection pool *)

\* db_pool.getconn() returns a connection: an idle one, or a new one while
\* fewer than maxconn are checked out and the server accepts it.
CanGetConn == idle > 0 \/ (used < MAXCONN /\ dbUp)

IdleAfterGet == IF idle > 0 THEN idle - 1 ELSE 0

\* get_db raised: the pool is as it was.
PoolUntouched == UNCHANGED <<used, idle>>

\* get_db succeeded and the handler returned through release_db: putconn
\* keeps the connection while fewer than minconn are idle, else closes it.
PoolReleased ==
    /\ used' = used
    /\ idle' = IF IdleAfterGet < MINCONN THEN IdleAfterGet + 1 ELSE IdleAfterGet

\* get_db succeeded and the handler left through its except clause, which
\* does not call release_db: the connection stays checked out.
PoolKept ==
    /\ used' = used + 1
    /\ idle' = IdleAfterGet

PoolAfter(outcome) ==
    CASE outcome = "untouched" -> PoolUntouched
      [] outcome = "released"  -> PoolReleased
      [] outcome = "kept"      -> PoolKept


-----------------------------------------------------------------------------
(* The handlers.  Each outcome names the table and the sequence it leaves,  *)
(* what became of the pooled connection, and the response.                  *)

Outcome(t, seq, pool, code, body) ==
    [tasks |-> t, seq |-> seq, pool |-> pool, code |-> code, body |-> body]

\* the except clause answering with str(e) where get_db raised
FailedWithCause(pool, message) ==
    Outcome(tasks, tasks_id_seq, pool, 500,
            [error |-> IF pool = "untouched" THEN "connection pool exhausted" ELSE message])

Failed(pool, message) == Outcome(tasks, tasks_id_seq, pool, 500, [error |-> message])

\* GET /api/health
HealthOutcome ==
    IF ~CanGetConn THEN
        Outcome(tasks, tasks_id_seq, "untouched", 500,
                [status |-> "unhealthy", database |-> "disconnected"])
    ELSE IF ~dbUp THEN
        Outcome(tasks, tasks_id_seq, "kept", 500,
                [status |-> "unhealthy", database |-> "disconnected"])
    ELSE
        Outcome(tasks, tasks_id_seq, "released", 200,
                [status |-> "healthy", database |-> "connected"])

\* GET /api/tasks
GetTasksOutcome ==
    IF ~CanGetConn THEN Failed("untouched", "Failed to fetch tasks")
    ELSE IF ~dbUp THEN Failed("kept", "Failed to fetch tasks")
    ELSE Outcome(tasks, tasks_id_seq, "released", 200, [array |-> TaskList])

\* POST /api/tasks
AddTaskOutcome(data) ==
    IF data.kind = "malformed" THEN Failed("untouched", "Failed to add task")
    ELSE IF ~CanGetConn THEN Failed("untouched", "Failed to add task")
    ELSE IF data.kind = "null" \/ "title" \notin DOMAIN data.obj
         THEN Failed("kept", "Failed to add task")
    ELSE IF ~dbUp THEN Failed("kept", "Failed to add task")
    ELSE LET p == InsertParams(data)
             new_id == nextval
         IN  IF ~InsertAnalysed(p) THEN Failed("kept", "Failed to add task")
             ELSE IF ~InsertNotNull(p)
                  THEN Outcome(tasks, new_id, "kept", 500, [error |-> "Failed to add task"])
             ELSE Outcome(InsertTable(new_id, p), new_id, "released", 200,
                          [success |-> TRUE, id |-> new_id])

\* PUT /api/tasks/<task_id>
UpdateTaskOutcome(task_id, data) ==
    IF data.kind = "malformed" THEN Failed("untouched", "Failed to update task")
    ELSE IF ~CanGetConn THEN Failed("untouched", "Failed to update task")
    ELSE IF data.kind = "null" THEN Failed("kept", "Failed to update task")
    ELSE IF ~dbUp THEN Failed("kept", "Failed to update task")
    ELSE LET p == UpdateParams(data)
         IN  IF ~UpdateAnalysed(p) THEN Failed("kept", "Failed to update task")
             ELSE IF RowCount(task_id) = 0
                  THEN Outcome(tasks, tasks_id_seq, "released", 404,
                               [error |-> "Task not found"])
             ELSE Outcome(UpdateTable(task_id, p), tasks_id_seq, "released", 200,
                          [success |-> TRUE])

\* DELETE /api/tasks/<task_id>
DeleteTaskOutcome(task_id) ==
    IF ~CanGetConn THEN Failed("untouched", "Failed to delete task")
    ELSE IF ~dbUp THEN Failed("kept", "Failed to delete task")
    ELSE IF RowCount(task_id) = 0
         THEN Outcome(tasks, tasks_id_seq, "released", 404, [error |-> "Task not found"])
    ELSE Outcome(DeleteTable(task_id), tasks_id_seq, "released", 200, [success |-> TRUE])

\* What the caller receives, with the route it asked for.
Exchange(op, task_id, r) == [op |-> op, task_id |-> task_id, code |-> r.code, body |-> r.body]

health_check ==
    LET r == HealthOutcome
    IN  /\ tasks' = r.tasks /\ tasks_id_seq' = r.seq
        /\ PoolAfter(r.pool)
        /\ last' = Exchange("health_check", 0, r)
        /\ UNCHANGED <<dbUp, now, txn, net, ctasks, calendar, view, timer>>

get_tasks ==
    LET r == GetTasksOutcome
    IN  /\ tasks' = r.tasks /\ tasks_id_seq' = r.seq
        /\ PoolAfter(r.pool)
        /\ last' = Exchange("get_tasks", 0, r)
        /\ UNCHANGED <<dbUp, now, txn, net, ctasks, calendar, view, timer>>

add_task(data) ==
    LET r == AddTaskOutcome(data)
    IN  /\ tasks' = r.tasks /\ tasks_id_seq' = r.seq
        /\ PoolAfter(r.pool)
        /\ last' = Exchange("add_task", 0, r)
        /\ UNCHANGED <<dbUp, now, txn, net, ctasks, calendar, view, timer>>

update_task(task_id, data) ==
    LET r == UpdateTaskOutcome(task_id, data)
    IN  /\ tasks' = r.tasks /\ tasks_id_seq' = r.seq
        /\ PoolAfter(r.pool)
        /\ last' = Exchange("update_task", task_id, r)
        /\ UNCHANGED <<dbUp, now, txn, net, ctasks, calendar, view, timer>>

delete_task(task_id) ==
    LET r == DeleteTaskOutcome(task_id)
    IN  /\ tasks' = r.tasks /\ tasks_id_seq' = r.seq
        /\ PoolAfter(r.pool)
        /\ last' = Exchange("delete_task", task_id, r)
        /\ UNCHANGED <<dbUp, now, txn, net, ctasks, calendar, view, timer>>

\* A worker thread that handles no request
Idle == [pc |-> "idle", op |-> "", task_id |-> 0, data |-> JsonNull, intact |-> FALSE]

\* The body each handler's except clause answers with
ErrorBody ==
    [health_check |-> [status |-> "unhealthy", database |-> "disconnected"],
     get_tasks    |-> [error |-> "Failed to fetch tasks"],
     add_task     |-> [error |-> "Failed to add task"],
     update_task  |-> [error |-> "Failed to update task"],
     delete_task  |-> [error |-> "Failed to delete task"]]

-----------------------------------------------------------------------------
(* The write handlers, step by step, for requests handled at once by the   *)
(* threads of the worker.  A thread receives a request (request.json,      *)
(* get_db, the parameter tuple), has its statement executed, commits, then *)
(* releases the connection and responds.  PostgreSQL makes an UPDATE or    *)
(* DELETE wait while another transaction that wrote the row has not ended, *)
(* and then applies it to the row as committed (READ COMMITTED).           *)

\* db_pool.getconn() returned a connection
PoolGet == used' = used + 1 /\ idle' = IdleAfterGet

\* db_pool.putconn(conn)
PoolPut == used' = used - 1 /\ idle' = IF idle < MINCONN THEN idle + 1 ELSE idle

\* The except clause of the handler thread th runs: the connection, if one
\* was taken, stays checked out.
Raise(th) ==
    /\ last' = [op |-> txn[th].op, task_id |-> IF txn[th].op = "add_task" THEN 0 ELSE txn[th].task_id,
                code |-> 500, body |-> ErrorBody[txn[th].op]]
    /\ txn' = [txn EXCEPT ![th] = Idle]
    /\ UNCHANGED <<used, idle>>

\* cur.rowcount == 0: release_db and 404
NotFound(th) ==
    /\ PoolPut
    /\ last' = [op |-> txn[th].op, task_id |-> txn[th].task_id,
                code |-> 404, body |-> [error |-> "Task not found"]]
    /\ txn' = [txn EXCEPT ![th] = Idle]

\* request.json, get_db() and the parameter tuple of cur.execute
receive(th, op, task_id, data) ==
    /\ txn[th].pc = "idle"
    /\ UNCHANGED <<tasks, tasks_id_seq, dbUp, now, net, ctasks, calendar, view, timer>>
    /\ IF (op # "delete_task" /\ data.kind = "malformed") \/ ~CanGetConn
       THEN /\ PoolUntouched
            /\ last' = [op |-> op, task_id |-> task_id, code |-> 500, body |-> ErrorBody[op]]
            /\ UNCHANGED txn
       ELSE /\ PoolGet
            /\ IF /\ op # "delete_task"
                  /\ \/ data.kind = "null"
                     \/ op = "add_task" /\ "title" \notin DOMAIN data.obj
               THEN /\ last' = [op |-> op, task_id |-> task_id, code |-> 500,
                                body |-> ErrorBody[op]]
                    /\ UNCHANGED txn
               ELSE /\ txn' = [txn EXCEPT ![th] = [pc |-> "execute", op |-> op,
                                                  task_id |-> task_id, data |-> data,
                                                  intact |-> FALSE]]
                    /\ UNCHANGED last

\* The statement of th waits for the transaction that wrote its row.
Blocked(th) ==
    /\ txn[th].op \in {"update_task", "delete_task"}
    /\ \E o \in DOMAIN txn \ {th} : txn[o].pc = "commit" /\ txn[o].task_id = txn[th].task_id

\* cur.execute: the statement runs in a transaction of its own.
execute(th) ==
    LET t == txn[th]
        Proceed(id) == /\ txn' = [txn EXCEPT ![th].pc = "commit", ![th].task_id = id]
                       /\ UNCHANGED <<last, used, idle>>
    IN  /\ t.pc = "execute"
        /\ ~Blocked(th)
        /\ UNCHANGED <<tasks, dbUp, now, net, ctasks, calendar, view, timer>>
        /\ IF ~dbUp THEN Raise(th) /\ UNCHANGED tasks_id_seq
           ELSE IF t.op = "add_task" THEN
                IF ~InsertAnalysed(InsertParams(t.data))
                THEN Raise(th) /\ UNCHANGED tasks_id_seq
                ELSE IF ~InsertNotNull(InsertParams(t.data))
                     THEN Raise(th) /\ tasks_id_seq' = nextval
                     ELSE Proceed(nextval) /\ tasks_id_seq' = nextval
           ELSE IF t.op = "update_task" /\ ~UpdateAnalysed(UpdateParams(t.data))
                THEN Raise(th) /\ UNCHANGED tasks_id_seq
           ELSE IF RowCount(t.task_id) = 0
                THEN NotFound(th) /\ UNCHANGED tasks_id_seq
           ELSE Proceed(t.task_id) /\ UNCHANGED tasks_id_seq

\* conn.commit() acknowledged with nothing written
CommitTableDeferred(th) == tasks

\* The table once the transaction of th is committed.
CommitTable(th) ==
    LET t == txn[th]
    IN  CASE t.op = "add_task"    -> InsertTable(t.task_id, InsertParams(t.data))
          [] t.op = "update_task" -> UpdateTable(t.task_id, UpdateParams(t.data))
          [] t.op = "delete_task" -> DeleteTable(t.task_id)

\* conn.commit().  intact records, for the thread that has committed and not
\* yet responded, that no later transaction has written its row.
commit(th) ==
    /\ txn[th].pc = "commit"
    /\ UNCHANGED <<tasks_id_seq, dbUp, now, net, ctasks, calendar, view, timer>>
    /\ IF ~dbUp THEN Raise(th) /\ UNCHANGED tasks
       ELSE /\ tasks' = CommitTable(th)
            /\ txn' = [o \in DOMAIN txn |->
                         IF o = th THEN [txn[th] EXCEPT !.pc = "respond", !.intact = TRUE]
                         ELSE IF txn[o].pc = "respond" /\ txn[o].task_id = txn[th].task_id
                              THEN [txn[o] EXCEPT !.intact = FALSE]
                              ELSE txn[o]]
            /\ UNCHANGED <<last, used, idle>>

\* release_db(conn, cur) and the success response
respond(th) ==
    LET t == txn[th]
    IN  /\ t.pc = "respond"
        /\ PoolPut
        /\ last' = [op |-> t.op, task_id |-> IF t.op = "add_task" THEN 0 ELSE t.task_id,
                    code |-> 200,
                    body |-> IF t.op = "add_task" THEN [success |-> TRUE, id |-> t.task_id]
                             ELSE [success |-> TRUE]]
        /\ txn' = [txn EXCEPT ![th] = Idle]
        /\ UNCHANGED <<tasks, tasks_id_seq, dbUp, now, net, ctasks, calendar, view, timer>>

-----------------------------------------------------------------------------
(* The environment *)

\* The database clock advances.
Tick ==
    /\ now < MaxClock
    /\ now' = now + 1
    /\ UNCHANGED <<tasks, tasks_id_seq, used, idle, dbUp, last, txn, net, ctasks, calendar, view, timer>>

\* The database server stops answering, or answers again.  While it does not
\* answer, a statement on a pooled connection raises and no new connection
\* can be made; connections made before are usable again afterwards.
DatabaseFails ==
    /\ dbUp
    /\ dbUp' = FALSE
    /\ UNCHANGED <<tasks, tasks_id_seq, used, idle, now, last, txn, net, ctasks, calendar, view, timer>>

DatabaseRecovers ==
    /\ ~dbUp
    /\ dbUp' = TRUE
    /\ UNCHANGED <<tasks, tasks_id_seq, used, idle, now, last, txn, net, ctasks, calendar, view, timer>>

-----------------------------------------------------------------------------
(* The requests the model sends *)

\* The JSON objects with the keys K, the value of key k drawn from V[k]
ObjectsOver(V, K) ==
    {Object(f) : f \in {g \in [K -> UNION {V[k] : k \in K}] : \A k \in K : g[k] \in V[k]}}

\* The JSON objects with at most n of the keys of V
Objects(V, n) ==
    UNION {ObjectsOver(V, K) : K \in {L \in SUBSET DOMAIN V : Cardinality(L) <= n}}

\* The bounds: no more than cap rows are ever inserted.
Below(cap) == tasks_id_seq < cap

\* Spec: the bodies that make a handler fail, and a title.
Bodies ==
    {Malformed, JsonNull}
    \cup Objects([title    |-> {NULL, Str(""), Str("Write spec")},
                  due_date |-> {EmptyText, Text(D_2024_02_30)}], 1)

\* SpecDates: a title, the two dates and a status, two keys at a time.
DateBodies ==
    Objects([title         |-> {Str("Write spec")},
             due_date      |-> {NULL, EmptyText, Text(D_2024_02_15), Text(D_2024_2_15),
                                Text(D_2024_02_30), Text(D_infinity)},
             assigned_date |-> {NULL, EmptyText, Text(D_2024_03_01)},
             status        |-> {Str("done")}], 2)

\* SpecEnums: a title, a priority and a status, two keys at a time.
EnumBodies ==
    Objects([title    |-> {Str("Write spec")},
             priority |-> {NULL, Str(""), Str("high")},
             status   |-> {NULL, Str("done"), Str("archived")}], 2)

\* SpecCreate: well-formed values for every field.
ValidValues ==
    [title         |-> {Str("Write spec")},
     description   |-> {Str("d")},
     due_date      |-> {Text(D_2024_02_15)},
     assigned_date |-> {Text(D_2024_03_01)},
     priority      |-> {Str("high")},
     status        |-> {Str("done")},
     notes         |-> {Str("n")}]

\* a title and any of the other fields; and one body whose date is written
\* without its leading zero
CreateBodies ==
    {b \in Objects(ValidValues, Cardinality(DOMAIN ValidValues)) : "title" \in DOMAIN b.obj}
    \cup {Object([title |-> Str("Write spec"), due_date |-> Text(D_2024_2_15)])}

\* at most one field
PatchBodies == Objects(ValidValues, 1)

\* SpecClock: a title or a status.
ClockBodies == Objects([title |-> {Str("Write spec")}, status |-> {Str("done")}], 1)

\* SpecWhole: bodies of which one field is accepted and another rejected.
WholeBodies ==
    Objects([title         |-> {Str("Write spec")},
             status        |-> {Str("done")},
             due_date      |-> {Text(D_2024_02_15), Text(D_2024_02_30)},
             assigned_date |-> {NULL, EmptyText}], 2)

\* SpecViews: what another client of the API creates before the page is
\* opened: a title, and a status or a priority of its own choosing.
ViewBodies ==
    {b \in Objects([title    |-> {Str("Write spec")},
                    status   |-> {Str("archived")},
                    priority |-> {Str("low"), Str("someday")}], 3) :
        "title" \in DOMAIN b.obj}

\* SpecForm: what another client creates before the page is opened: a
\* title, with or without the two dates; and the bodies it updates with: one field given
\* as null, or a status.
FormPosts ==
    {Object([title |-> Str("Write spec")]),
     Object([title |-> Str("Write spec"), due_date |-> Text(D_2024_02_15),
             assigned_date |-> Text(D_2024_03_01)])}

NullBodies ==
    Objects([title         |-> {NULL},
             description   |-> {NULL},
             due_date      |-> {NULL},
             assigned_date |-> {NULL},
             priority      |-> {NULL},
             status        |-> {NULL, Str("done")},
             notes         |-> {NULL}], 1)

\* SpecTxn: a title to create with; a status, an assigned date or both to
\* update with.
TxnPosts == {Object([title |-> Str("Write spec")])}
TxnPuts ==
    Objects([status        |-> {Str("in_progress"), Str("done")},
             assigned_date |-> {Text(D_2024_03_01)}], 2)

-----------------------------------------------------------------------------
(* The page's task views.  The page's variable tasks holds the JSON value   *)
(* of the last response to GET /api/tasks: [array |-> the list] or the      *)
(* object [error |-> message]; it starts as the empty array.                *)

IsArray(v) == "array" \in DOMAIN v

\* let tasks = []
EmptyArray == [array |-> <<>>]

\* What tasks.forEach iterates over; on a value that is no array forEach
\* raises TypeError before any card is made.
Elements(v) == IF IsArray(v) THEN v.array ELSE <<>>

\* tasks.length === 0; the length of a value that is no array is undefined
LengthIsZero(v) == IsArray(v) /\ Len(v.array) = 0

\* The three lists of the Kanban board and the status each one takes
KanbanStatus ==
    ("todo-tasks" :> Str("todo")) @@ ("progress-tasks" :> Str("in_progress"))
    @@ ("done-tasks" :> Str("done"))

\* renderKanbanBoard: the lists are emptied, then each task's card goes to
\* the list of its status, and to none when its status is another string.
renderKanbanBoard(v) ==
    [l \in DOMAIN KanbanStatus |->
        SelectSeq(Elements(v), LAMBDA task : task.status = KanbanStatus[l])]

Quadrants ==
    {"urgent-important", "urgent-not-important", "not-urgent-important",
     "not-urgent-not-important"}

isUrgent(task) == task.priority = Str("urgent") \/ task.priority = Str("high")

\* important as the urgent priorities are
isImportantWhenUrgent(task) == isUrgent(task) \/ task.priority = Str("medium")

isImportant(task) == task.priority = Str("urgent") \/ task.priority = Str("medium")

quadrantKey(task) ==
    IF isUrgent(task) /\ isImportant(task) THEN "urgent-important"
    ELSE IF isUrgent(task) /\ ~isImportant(task) THEN "urgent-not-important"
    ELSE IF ~isUrgent(task) /\ isImportant(task) THEN "not-urgent-important"
    ELSE "not-urgent-not-important"

\* renderEisenhowerMatrix: the quadrants are emptied, then each task's card
\* goes to the quadrant of its key.
renderEisenhowerMatrix(v) ==
    [q \in Quadrants |-> SelectSeq(Elements(v), LAMBDA task : quadrantKey(task) = q)]

\* The task views as the template has them: the Kanban board displayed, the
\* matrix hidden, no card in either.
TemplateView ==
    [active |-> "kanban",
     kanban |-> renderKanbanBoard(EmptyArray),
     matrix |-> renderEisenhowerMatrix(EmptyArray)]

\* renderTasks: draws the view that is displayed.
renderTasks(v, w) ==
    IF w.active = "kanban" THEN [w EXCEPT !.kanban = renderKanbanBoard(v)]
    ELSE [w EXCEPT !.matrix = renderEisenhowerMatrix(v)]

-----------------------------------------------------------------------------
\* The state once the module is loaded: the pool holds its minconn
\* connections, init_db has created the table and returned its connection.
Init ==
    /\ tasks = <<>>
    /\ tasks_id_seq = 0
    /\ used = 0
    /\ idle = MINCONN
    /\ dbUp = TRUE
    /\ now = 0
    /\ last = [op |-> "init_db", task_id |-> 0, code |-> 0, body |-> <<>>]
    /\ txn = [th \in 1..THREADS |-> Idle]
    /\ net = {}
    /\ ctasks = EmptyArray
    /\ calendar = <<>>
    /\ view = TemplateView
    /\ timer = "none"

\* The API with a database that may fail.
Next ==
    \/ health_check
    \/ get_tasks
    \/ \E data \in Bodies : Below(MaxId) /\ add_task(data)
    \/ \E task_id \in 1..MaxId, data \in Bodies : update_task(task_id, data)
    \/ \E task_id \in 1..MaxId : delete_task(task_id)
    \/ DatabaseFails
    \/ DatabaseRecovers

Spec == Init /\ [][Next]_vars

\* The API over the date fields.
NextDates ==
    \/ health_check
    \/ get_tasks
    \/ \E data \in DateBodies : Below(MaxCreated) /\ add_task(data)
    \/ \E task_id \in 1..MaxCreated, data \in DateBodies : update_task(task_id, data)
    \/ \E task_id \in 1..MaxCreated : delete_task(task_id)

SpecDates == Init /\ [][NextDates]_vars

\* The API over the enumerated fields.
NextEnums ==
    \/ health_check
    \/ get_tasks
    \/ \E data \in EnumBodies : Below(MaxCreated) /\ add_task(data)
    \/ \E task_id \in 1..MaxCreated, data \in EnumBodies : update_task(task_id, data)
    \/ \E task_id \in 1..MaxCreated : delete_task(task_id)

SpecEnums == Init /\ [][NextEnums]_vars

\* The API with well-formed requests.
NextCreate ==
    \/ health_check
    \/ get_tasks
    \/ \E data \in CreateBodies : Below(MaxCreated) /\ add_task(data)
    \/ \E task_id \in 1..MaxCreated, data \in PatchBodies : update_task(task_id, data)
    \/ \E task_id \in 1..MaxCreated : delete_task(task_id)

SpecCreate == Init /\ [][NextCreate]_vars

\* The API with bodies that are accepted in part.
NextWhole ==
    \/ health_check
    \/ get_tasks
    \/ \E data \in WholeBodies : Below(MaxCreated) /\ add_task(data)
    \/ \E task_id \in 1..MaxCreated, data \in WholeBodies : update_task(task_id, data)
    \/ \E task_id \in 1..MaxCreated : delete_task(task_id)

SpecWhole == Init /\ [][NextWhole]_vars

\* The API while the clock advances.
NextClock ==
    \/ health_check
    \/ get_tasks
    \/ \E data \in ClockBodies : Below(MaxCreated) /\ add_task(data)
    \/ \E task_id \in 1..MaxCreated, data \in ClockBodies : update_task(task_id, data)
    \/ \E task_id \in 1..MaxCreated : delete_task(task_id)
    \/ Tick

SpecClock == Init /\ [][NextClock]_vars

-----------------------------------------------------------------------------
(* The page: the script of the HTML template.  A fetch is a request in net *)
(* until the server has handled it, then a response in net until the       *)
(* awaiting function fn resumes with it; responses are taken in any order. *)
(* cause records, on the fetch of a loadTasks, the call that made it, and  *)
(* on a POST of initializeSampleTasks (as task_id) the index of its task.  *)

NoCause == [fn |-> "DOMContentLoaded", task_id |-> 0, date |-> <<>>]
Cause(fn, task_id, date) == [fn |-> fn, task_id |-> task_id, date |-> date]

Request(fn, op, task_id, data, cause) ==
    [dir |-> "request", fn |-> fn, op |-> op, task_id |-> task_id, data |-> data,
     cause |-> cause, ok |-> FALSE, body |-> <<>>]

\* The response to request m; response.ok is a status of 200 to 299.
Response(m, r) ==
    [m EXCEPT !.dir = "response", !.data = JsonNull, !.ok = (r.code \in 200..299),
              !.body = r.body]

\* fetch('/api/tasks') of loadTasks
LoadTasksFetch(cause) == Request("loadTasks", "get_tasks", 0, JsonNull, cause)

\* tasks.find(t => t.id === taskId): the entries of the page's tasks with
\* this id; none when tasks is no array (find raises TypeError).
Find(task_id) == {i \in 1..Len(Elements(ctasks)) : ctasks.array[i].id = task_id}

\* renderCalendar over the page's tasks v: each task under the day that is
\* its assigned_date, or in the unassigned list (NULL) when it has none.  The
\* days of the model are all in the month the calendar shows.  When v is no
\* array tasks.filter raises once the grid is emptied: no day shows a card,
\* and the unassigned list stays as it was shown.
RenderCalendar(v, shown) ==
    IF IsArray(v)
    THEN [id \in {v.array[i].id : i \in 1..Len(v.array)} |->
             (v.array[CHOOSE i \in 1..Len(v.array) : v.array[i].id = id]).assigned_date]
    ELSE [id \in {i \in DOMAIN shown : shown[i] = NULL} |-> NULL]

\* The days the calendar shows a cell for
CalendarDays == {D_2024_03_01, D_2024_03_02}

\* The Kanban columns cards are dropped on
DropColumns == {Str("done")}

\* new Date().toISOString().split('T')[0] when the page runs
Today == D_2024_03_01

\* What the form holds when it is opened for a new task and a title typed
NewTaskData ==
    Object([title |-> Str("Write spec"), description |-> Str(""), due_date |-> NULL,
            assigned_date |-> NULL, priority |-> Str("medium"), status |-> Str("todo"),
            notes |-> Str("")])

\* What the form holds when it is opened on task t of the tasks array
EditTaskData(t) ==
    Object([title |-> t.title, description |-> t.description, due_date |-> t.due_date,
            assigned_date |-> t.assigned_date, priority |-> t.priority,
            status |-> t.status, notes |-> t.notes])

\* const sampleTasks of initializeSampleTasks
sampleTasks ==
    <<Object([title |-> Str("Complete project proposal"),
              description |-> Str("Write and submit the Q1 project proposal"),
              priority |-> Str("high"), status |-> Str("todo"),
              due_date |-> Text(D_2024_02_15)]),
      Object([title |-> Str("Team meeting"),
              description |-> Str("Weekly team sync meeting"),
              priority |-> Str("medium"), status |-> Str("todo"),
              assigned_date |-> Text(Today)]),
      Object([title |-> Str("Review code"),
              description |-> Str("Review pull requests from team members"),
              priority |-> Str("urgent"), status |-> Str("in_progress")])>>

\* The fetch of initializeSampleTasks for its i-th task
SamplePost(i) ==
    Request("initializeSampleTasks", "add_task", 0, sampleTasks[i],
            Cause("initializeSampleTasks", i, <<>>))

\* The fetches and responses in flight are fewer than cap.
InFlightBelow(cap) == Cardinality(net) < cap

\* The ids handed out, and about to be to the POSTs in flight: fewer than cap.
PostsBelow(cap) ==
    tasks_id_seq + Cardinality({m \in net : m.dir = "request" /\ m.op = "add_task"}) < cap

Page(newNet) ==
    /\ net' = newNet
    /\ UNCHANGED <<tasks, tasks_id_seq, used, idle, dbUp, now, last, txn>>

\* The page is opened: the script starts the one-second timer, and the
\* DOMContentLoaded handler calls loadTasks, which sends its fetch, and
\* renderCalendar.
DOMContentLoaded ==
    /\ timer = "none"
    /\ timer' = "pending"
    /\ Page(net \cup {LoadTasksFetch(NoCause)})
    /\ calendar' = RenderCalendar(ctasks, calendar)
    /\ UNCHANGED <<ctasks, view>>

\* The callback of setTimeout(..., 1000): initializeSampleTasks when
\* tasks.length === 0, which sends the POST of its first task.
sample_timer ==
    /\ timer = "pending"
    /\ timer' = "fired"
    /\ Page(IF LengthIsZero(ctasks) THEN net \cup {SamplePost(1)} ELSE net)
    /\ UNCHANGED <<ctasks, calendar, view>>

\* initializeSampleTasks resumes with the response to one of its POSTs,
\* whatever its status: it sends the next one, and after the last one calls
\* loadTasks.
initializeSampleTasks_resumes(m) ==
    /\ m \in net
    /\ m.dir = "response"
    /\ m.fn = "initializeSampleTasks"
    /\ Page((net \ {m})
            \cup {IF m.cause.task_id < Len(sampleTasks)
                  THEN SamplePost(m.cause.task_id + 1)
                  ELSE LoadTasksFetch(Cause("initializeSampleTasks", 0, <<>>))})
    /\ UNCHANGED <<ctasks, calendar, view, timer>>

\* showTaskView(viewName): displays the view and draws it.
showTaskView(viewName) ==
    /\ view' = renderTasks(ctasks, [view EXCEPT !.active = viewName])
    /\ UNCHANGED <<tasks, tasks_id_seq, used, idle, dbUp, now, last, txn, net, ctasks,
                   calendar, timer>>

\* The form is submitted for a new task.
submit_new ==
    /\ Page(net \cup {Request("submit", "add_task", 0, NewTaskData, NoCause)})
    /\ UNCHANGED <<ctasks, calendar, view, timer>>

\* The form, opened on a card of task_id, is submitted as it was filled in.
submit_edit(task_id) ==
    /\ Find(task_id) # {}
    /\ \E i \in Find(task_id) :
           Page(net \cup {Request("submit", "update_task", task_id,
                                  EditTaskData(ctasks.array[i]), NoCause)})
    /\ UNCHANGED <<ctasks, calendar, view, timer>>

\* What the form holds when it is opened on task t and the date inputs
\* named in cleared are emptied: value || null is null for an empty input.
EmptiedTaskData(t, cleared) ==
    [EditTaskData(t) EXCEPT
        !.obj = [k \in DOMAIN @ |-> IF k \in cleared THEN NULL ELSE @[k]]]

\* The form, opened on a card of task_id, is submitted with date inputs
\* emptied.
submit_edit_emptied(task_id, cleared) ==
    /\ Find(task_id) # {}
    /\ \E i \in Find(task_id) :
           Page(net \cup {Request("submit", "update_task", task_id,
                                  EmptiedTaskData(ctasks.array[i], cleared), NoCause)})
    /\ UNCHANGED <<ctasks, calendar, view, timer>>

\* A card of the Kanban board is dropped on a column: updateTaskStatus.
drop_on_column(task_id, status) ==
    /\ \E i \in Find(task_id) : ctasks.array[i].status \in StatusEnum
    /\ Page(net \cup {Request("updateTaskStatus", "update_task", task_id,
                              Object([status |-> status]), NoCause)})
    /\ UNCHANGED <<ctasks, calendar, view, timer>>

\* A card the calendar shows is dropped on a day: updateTaskDate.
drop_on_day(task_id, date) ==
    /\ task_id \in DOMAIN calendar
    /\ Find(task_id) # {}
    /\ Page(net \cup {Request("updateTaskDate", "update_task", task_id,
                              Object([assigned_date |-> Text(date)]),
                              Cause("updateTaskDate", task_id, date))})
    /\ UNCHANGED <<ctasks, calendar, view, timer>>

\* A card the calendar shows under a day is dropped on the unassigned
\* area: updateTaskDate(taskId, null).
drop_on_unassigned(task_id) ==
    /\ task_id \in DOMAIN calendar
    /\ calendar[task_id] # NULL
    /\ Find(task_id) # {}
    /\ Page(net \cup {Request("updateTaskDate", "update_task", task_id,
                              Object([assigned_date |-> NULL]),
                              Cause("updateTaskDate", task_id, <<>>))})
    /\ UNCHANGED <<ctasks, calendar, view, timer>>

\* The calendar tab is shown, or the calendar navigated: renderCalendar.
show_calendar ==
    /\ calendar' = RenderCalendar(ctasks, calendar)
    /\ UNCHANGED <<tasks, tasks_id_seq, used, idle, dbUp, now, last, txn, net, ctasks,
                   view, timer>>

\* The awaiting function of the form, of updateTaskStatus or of
\* updateTaskDate resumes with the response to its fetch: on response.ok it
\* calls loadTasks, and updateTaskDate then renderCalendar.
mutation_resumes(m) ==
    /\ m \in net
    /\ m.dir = "response"
    /\ m.fn \in {"submit", "updateTaskStatus", "updateTaskDate"}
    /\ Page(IF m.ok
            THEN (net \ {m}) \cup {LoadTasksFetch(Cause(m.fn, m.task_id, m.cause.date))}
            ELSE net \ {m})
    /\ calendar' = IF m.ok /\ m.fn = "updateTaskDate"
                   THEN RenderCalendar(ctasks, calendar)
                   ELSE calendar
    /\ UNCHANGED <<ctasks, view, timer>>

\* loadTasks resumes with the response to its fetch: tasks = await
\* response.json(), then renderTasks, which draws the board or the matrix.
loadTasks_resumes(m) ==
    /\ m \in net
    /\ m.dir = "response"
    /\ m.fn = "loadTasks"
    /\ Page(net \ {m})
    /\ ctasks' = m.body
    /\ view' = renderTasks(m.body, view)
    /\ UNCHANGED <<calendar, timer>>

\* The server handles a request of the page.
serve(m) ==
    LET r == CASE m.op = "get_tasks"   -> GetTasksOutcome
               [] m.op = "add_task"    -> AddTaskOutcome(m.data)
               [] m.op = "update_task" -> UpdateTaskOutcome(m.task_id, m.data)
    IN  /\ m \in net
        /\ m.dir = "request"
        /\ tasks' = r.tasks /\ tasks_id_seq' = r.seq
        /\ PoolAfter(r.pool)
        /\ last' = Exchange(m.op, m.task_id, r)
        /\ net' = (net \ {m}) \cup {Response(m, r)}
        /\ UNCHANGED <<dbUp, now, txn, ctasks, calendar, view, timer>>

\* The page once DOMContentLoaded has run: the timer is started, loadTasks
\* has sent its fetch and renderCalendar has drawn the empty tasks array.
InitPage ==
    /\ tasks = <<>>
    /\ tasks_id_seq = 0
    /\ used = 0
    /\ idle = MINCONN
    /\ dbUp = TRUE
    /\ now = 0
    /\ last = [op |-> "init_db", task_id |-> 0, code |-> 0, body |-> <<>>]
    /\ txn = [th \in 1..THREADS |-> Idle]
    /\ net = {LoadTasksFetch(NoCause)}
    /\ ctasks = EmptyArray
    /\ calendar = RenderCalendar(EmptyArray, <<>>)
    /\ view = TemplateView
    /\ timer = "pending"

\* One page and the server.
NextPage ==
    \/ InFlightBelow(MaxInFlight) /\ PostsBelow(MaxCreated) /\ submit_new
    \/ \E task_id \in 1..MaxCreated : InFlightBelow(MaxInFlight) /\ submit_edit(task_id)
    \/ \E task_id \in 1..MaxCreated, status \in DropColumns :
           InFlightBelow(MaxInFlight) /\ drop_on_column(task_id, status)
    \/ \E task_id \in 1..MaxCreated, date \in CalendarDays :
           InFlightBelow(MaxInFlight) /\ drop_on_day(task_id, date)
    \/ \E task_id \in 1..MaxCreated :
           InFlightBelow(MaxInFlight) /\ drop_on_unassigned(task_id)
    \/ show_calendar
    \/ sample_timer
    \/ \E m \in net : initializeSampleTasks_resumes(m)
    \/ \E m \in net : mutation_resumes(m)
    \/ \E m \in net : loadTasks_resumes(m)
    \/ \E m \in net : serve(m)

SpecPage == InitPage /\ [][NextPage]_vars

\* The date inputs of the form, one or both emptied
EmptiedInputs == (SUBSET {"due_date", "assigned_date"}) \ {{}}

\* A store other clients have written, with nulls too, then the page
\* opened on it and its form saved with date inputs emptied.
NextForm ==
    \/ \E data \in FormPosts : timer = "none" /\ Below(MaxCreated) /\ add_task(data)
    \/ \E task_id \in 1..MaxCreated, data \in NullBodies :
           timer = "none" /\ update_task(task_id, data)
    \/ DOMContentLoaded
    \/ sample_timer
    \/ \E task_id \in 1..MaxCreated, cleared \in EmptiedInputs :
           InFlightBelow(MaxInFlight) /\ submit_edit_emptied(task_id, cleared)
    \/ \E m \in net : initializeSampleTasks_resumes(m)
    \/ \E m \in net : mutation_resumes(m)
    \/ \E m \in net : loadTasks_resumes(m)
    \/ \E m \in net : serve(m)

SpecForm == Init /\ [][NextForm]_vars

\* The names showTaskView is called with
ViewNames == {"kanban", "eisenhower"}

\* A store other clients have written, then the page opened on it.
NextViews ==
    \/ \E data \in ViewBodies : timer = "none" /\ Below(MaxCreated) /\ add_task(data)
    \/ DOMContentLoaded
    \/ sample_timer
    \/ \E viewName \in ViewNames : showTaskView(viewName)
    \/ \E m \in net : initializeSampleTasks_resumes(m)
    \/ \E m \in net : loadTasks_resumes(m)
    \/ \E m \in net : serve(m)
    \/ DatabaseFails
    \/ DatabaseRecovers

SpecViews == Init /\ [][NextViews]_vars

\* The ids handed out and about to be: no more than cap.
BelowInFlight(cap) ==
    tasks_id_seq + Cardinality({th \in DOMAIN txn : txn[th].pc = "execute"
                                                     /\ txn[th].op = "add_task"}) < cap

\* The API with two requests in progress at once.
NextTxn ==
    \/ \E th \in 1..THREADS, data \in TxnPosts :
           BelowInFlight(MaxCreated) /\ receive(th, "add_task", 0, data)
    \/ \E th \in 1..THREADS, task_id \in 1..MaxCreated, data \in TxnPuts :
           receive(th, "update_task", task_id, data)
    \/ \E th \in 1..THREADS, task_id \in 1..MaxCreated :
           receive(th, "delete_task", task_id, JsonNull)
    \/ \E th \in 1..THREADS : execute(th)
    \/ \E th \in 1..THREADS : commit(th)
    \/ \E th \in 1..THREADS : respond(th)
    \/ (\E th \in 1..THREADS : txn[th].pc = "idle") /\ get_tasks

SpecTxn == Init /\ [][NextTxn]_vars

-----------------------------------------------------------------------------
(* The claims *)

\* The fields a request body can set
Fields == {"title", "description", "due_date", "assigned_date", "priority", "status", "notes"}

\* C1: a successful PUT leaves every field whose key is absent from the body
\* as it was, and never changes id or created_at; PUT {status: "done"}
\* changes only status and updated_at.
C1_AbsentKeysKeepTheirValue ==
    [][\A task_id \in 1..MaxCreated, data \in DateBodies :
          (task_id \in DOMAIN tasks /\ update_task(task_id, data) /\ last'.code = 200)
          => /\ \A k \in Fields \ DOMAIN data.obj :
                    tasks'[task_id][k] = tasks[task_id][k]
             /\ tasks'[task_id].id = tasks[task_id].id
             /\ tasks'[task_id].created_at = tasks[task_id].created_at]_vars

\* C2: on a task that has a date, a PUT carrying '' for that date field
\* succeeds and sets it to null, while the same PUT without the key leaves
\* the date as it was.
C2_EmptyStringClearsOmittedKeeps ==
    [][\A task_id \in 1..MaxCreated, k \in {"due_date", "assigned_date"} :
          (task_id \in DOMAIN tasks /\ tasks[task_id][k] # NULL)
          => /\ update_task(task_id, Object([x \in {k} |-> EmptyText]))
                    => (last'.code = 200 /\ tasks'[task_id][k] = NULL)
             /\ \A data \in DateBodies :
                    (data.kind = "object" /\ k \notin DOMAIN data.obj
                        /\ update_task(task_id, data) /\ last'.code = 200)
                    => tasks'[task_id][k] = tasks[task_id][k]]_vars

\* C3: between requests no connection is checked out of the pool.
C3_NoConnectionCheckedOut == used = 0

\* C4: a POST whose title is missing or '' answers with an error and leaves
\* the table as it was.
C4_TitleRequiredOnCreate ==
    [][\A data \in Bodies :
          (/\ data.kind = "object"
           /\ ("title" \notin DOMAIN data.obj \/ data.obj["title"] = Str(""))
           /\ add_task(data))
          => (last'.code >= 400 /\ tasks' = tasks)]_vars

\* C5: every stored task has a title that is neither null nor ''.
C5_TitleNeverEmpty ==
    \A id \in DOMAIN tasks : tasks[id].title # NULL /\ tasks[id].title # Str("")

\* C10: GET /api/health answers 200 exactly when the database is reachable,
\* and 500 otherwise.
C10_HealthReflectsDatabase ==
    [][health_check => (last'.code = (IF dbUp THEN 200 ELSE 500))]_vars

-----------------------------------------------------------------------------
Enum == [status |-> StatusEnum, priority |-> PriorityEnum]

\* C6 as claimed: every stored task's status and priority is one of the
\* enumerated values, whatever strings the requests carried.
C6_EnumeratedValuesOnly ==
    \A id \in DOMAIN tasks :
        tasks[id].status \in StatusEnum /\ tasks[id].priority \in PriorityEnum

\* C6 as amended: every stored task's status and priority is non-null, and
\* is one of the enumerated values unless a successful POST or PUT supplied
\* that very string for the field.
C6_EnumeratedUnlessSupplied ==
    [][\A id \in DOMAIN tasks', k \in {"status", "priority"} :
          /\ tasks'[id][k] # NULL
          /\ \/ tasks'[id][k] \in Enum[k]
             \/ id \in DOMAIN tasks /\ tasks[id][k] = tasks'[id][k]
             \/ \E data \in EnumBodies :
                    /\ k \in DOMAIN data.obj
                    /\ data.obj[k] = tasks'[id][k]
                    /\ add_task(data) \/ update_task(id, data)
                    /\ last'.code = 200]_vars

\* C6 witness: a request has stored a status outside the enumeration.
C6_Witness ==
    /\ last.op \in {"add_task", "update_task"}
    /\ last.code = 200
    /\ \E id \in DOMAIN tasks : tasks[id].status = Str("archived")

\* The date values of a body are ones the UPDATE accepts: null or a date.
DatesAcceptable(data) ==
    \A k \in {"due_date", "assigned_date"} \cap DOMAIN data.obj :
        data.obj[k] = NULL \/ DateValid(data.obj[k].c)

C8_DeleteRemovesOnce ==
    [][\A task_id \in 1..MaxId :
          (delete_task(task_id) /\ last'.code = 200)
          => /\ task_id \in DOMAIN tasks
             /\ DOMAIN tasks' = DOMAIN tasks \ {task_id}
             /\ \A other \in DOMAIN tasks' : tasks'[other] = tasks[other]
             /\ \A i \in 1..Len(TaskList') : TaskList'[i].id # task_id
             /\ Len(TaskList') = Len(TaskList) - 1
             /\ DeleteTaskOutcome(task_id)'.code = 404
             /\ DeleteTaskOutcome(task_id)'.tasks = tasks']_vars

\* C8 witness: a DELETE has succeeded and left another task in the table.
C8_Witness ==
    /\ last.op = "delete_task"
    /\ last.code = 200
    /\ last.task_id \notin DOMAIN tasks
    /\ DOMAIN tasks # {}

\* A date text of the form YYYY-MM-DD that names a day
IsoDate(cs) == Len(cs) = 10 /\ cs[5] = "-" /\ cs[8] = "-" /\ DateValid(cs)

\* A valid field set: a non-empty title, dates as YYYY-MM-DD
ValidFieldSet(data) ==
    /\ data.kind = "object"
    /\ "title" \in DOMAIN data.obj
    /\ data.obj["title"] \notin {NULL, Str("")}
    /\ \A k \in {"due_date", "assigned_date"} \cap DOMAIN data.obj :
           data.obj[k] # NULL /\ IsoDate(data.obj[k].c)

\* What a field that POST does not supply is listed as
Defaults ==
    [title |-> NULL, description |-> Str(""), due_date |-> NULL, assigned_date |-> NULL,
     priority |-> Str("medium"), status |-> Str("todo"), notes |-> Str("")]

\* C9: after a successful POST of a valid field set the list holds exactly
\* one task with the returned id, each supplied field as submitted, each
\* other field at its default, and is one task longer.
C9_CreateThenList ==
    [][(last'.op = "add_task" /\ last'.code = 200)
       => \A data \in CreateBodies :
            (ValidFieldSet(data) /\ add_task(data))
            => LET listed == {i \in 1..Len(TaskList') : TaskList'[i].id = last'.body.id}
               IN  /\ Cardinality(listed) = 1
                   /\ Len(TaskList') = Len(TaskList) + 1
                   /\ \A i \in listed, k \in Fields :
                          TaskList'[i][k] = IF k \in DOMAIN data.obj
                                            THEN data.obj[k] ELSE Defaults[k]]_vars

\* C9 witness: a POST carrying due_date 2024-02-15 and no description has
\* succeeded, and the list shows its task.
C9_Witness ==
    /\ last.op = "add_task"
    /\ last.code = 200
    /\ \E i \in 1..Len(TaskList) :
           /\ TaskList[i].id = last.body.id
           /\ TaskList[i].due_date = Text(D_2024_02_15)
           /\ TaskList[i].description = Str("")

-----------------------------------------------------------------------------
IsDateField(k) == k \in {"due_date", "assigned_date"}

\* Every non-null field of the body is in the row: a text as it was sent,
\* a date as the day its text names.
AppliedWhole(row, data) ==
    \A k \in DOMAIN data.obj :
        data.obj[k] # NULL
        => IF IsDateField(k)
           THEN Converted[data.obj[k].c] # NULL /\ row[k] = Converted[data.obj[k].c]
           ELSE row[k] = data.obj[k]

\* Every field of the body is in the row a POST stored; a date sent as ''
\* or null is no date.
StoredWhole(row, data) ==
    \A k \in DOMAIN data.obj :
        IF IsDateField(k)
        THEN IF Truthy(data.obj[k])
             THEN Converted[data.obj[k].c] # NULL /\ row[k] = Converted[data.obj[k].c]
             ELSE row[k] = NULL
        ELSE row[k] = data.obj[k]

\* C11: a request that answers 404 or 500 leaves the table as it was; a PUT
\* on a stored task either succeeds with every non-null field of its body
\* applied, or fails with the table unchanged; a POST either stores a row
\* holding every field of its body, or stores nothing.
C11_ErrorsChangeNothingWritesAreWhole ==
    [][/\ last'.code \in {404, 500} => tasks' = tasks
       /\ (last'.op = "update_task" /\ last'.task_id \in DOMAIN tasks)
          => \A data \in WholeBodies :
                 update_task(last'.task_id, data)
                 => \/ last'.code = 200 /\ AppliedWhole(tasks'[last'.task_id], data)
                    \/ last'.code = 500 /\ tasks' = tasks
       /\ last'.op = "add_task"
          => \A data \in WholeBodies :
                 add_task(data)
                 => \/ /\ last'.code = 200
                       /\ DOMAIN tasks' = DOMAIN tasks \cup {last'.body.id}
                       /\ StoredWhole(tasks'[last'.body.id], data)
                    \/ last'.code = 500 /\ tasks' = tasks]_vars

\* C11 witness: a PUT on a stored task has answered 500 and the task is
\* still stored, with the status and the due date it was created with.
C11_Witness ==
    /\ last.op = "update_task"
    /\ last.code = 500
    /\ last.task_id \in DOMAIN tasks
    /\ tasks[last.task_id].status = Str("todo")
    /\ tasks[last.task_id].due_date = Converted[D_2024_02_15]

-----------------------------------------------------------------------------
\* C12: every handler answers 200, 404 or 500; a 500 carries the one body
\* of its endpoint whatever failed (the body, the pool, the statement, the
\* database), and a 404 comes from PUT or DELETE with 'Task not found'.
C12_FixedErrorBodies ==
    last.op # "init_db"
    => /\ last.code \in {200, 404, 500}
       /\ last.code = 500 => last.body = ErrorBody[last.op]
       /\ last.code = 404 => /\ last.op \in {"update_task", "delete_task"}
                             /\ last.body = [error |-> "Task not found"]

\* C12 witness: a PUT has answered 500 while the database answers, every
\* connection of the pool being checked out by requests that failed.
C12_Witness ==
    /\ last.op = "update_task"
    /\ last.code = 500
    /\ used = MAXCONN
    /\ idle = 0
    /\ dbUp

-----------------------------------------------------------------------------
\* The table holds the write of the request of thread th.
Reflects(t, table) ==
    CASE t.op = "add_task"    -> /\ t.task_id \in DOMAIN table
                                 /\ StoredWhole(table[t.task_id], t.data)
      [] t.op = "update_task" -> /\ t.task_id \in DOMAIN table
                                 /\ AppliedWhole(table[t.task_id], t.data)
      [] t.op = "delete_task" -> t.task_id \notin DOMAIN table

\* C13: when a POST, PUT or DELETE answers with success, the table every
\* later GET /api/tasks reads holds its write, unless a transaction that
\* committed after it has written the same task.
C13_CommittedBeforeResponse ==
    [][\A th \in 1..THREADS :
          respond(th)
          => /\ last'.code = 200
             /\ txn[th].intact => Reflects(txn[th], tasks')]_vars

\* C13 witness: a PUT has answered with success while the other thread holds
\* a transaction on the same task that is not yet committed.
C13_Witness ==
    /\ last.op = "update_task"
    /\ last.code = 200
    /\ \E th \in 1..THREADS :
           /\ txn[th].pc = "commit"
           /\ txn[th].op = "update_task"
           /\ txn[th].task_id = last.task_id

-----------------------------------------------------------------------------
\* C14: no two stored tasks share an id; no PUT changes the id of a task or
\* the set of stored ids; the sequence never goes back and every stored id
\* was handed out by it, so a task created now gets an id greater than that
\* of every task created or deleted before, failed creates included.
C14_IdsUniqueImmutableNeverReused ==
    [][/\ \A i, j \in DOMAIN tasks' : tasks'[i].id = tasks'[j].id => i = j
       /\ \A i \in DOMAIN tasks' : tasks'[i].id = i /\ i <= tasks_id_seq'
       /\ tasks_id_seq' >= tasks_id_seq
       /\ \A i \in DOMAIN tasks' \ DOMAIN tasks :
              /\ i > tasks_id_seq
              /\ last'.op = "add_task" /\ last'.body.id = i
       /\ \A task_id \in 1..MaxId, data \in Bodies :
              update_task(task_id, data)
              => /\ DOMAIN tasks' = DOMAIN tasks
                 /\ \A i \in DOMAIN tasks : tasks'[i].id = tasks[i].id]_vars

\* C14 witness: a POST has created task 2 while id 1, handed out before to a
\* task since deleted or to a create that failed, is not in the table.
C14_Witness ==
    /\ last.op = "add_task"
    /\ last.code = 200
    /\ last.body.id = 2
    /\ DOMAIN tasks = {2}

-----------------------------------------------------------------------------
\* The date texts of the model that name a day of the calendar
CalendarTexts == {cs \in DateTexts : DateValid(cs)}

\* A stored DATE that is a day of the calendar
IsCalendarDate(v) ==
    /\ DOMAIN v = {"y", "m", "d"}
    /\ v.y >= 1 /\ v.m \in 1..12 /\ v.d \in 1..DaysIn(v.y, v.m)

\* The body carries, for a date field, a non-empty string that names no day.
HasInvalidDate(data) ==
    \E k \in {"due_date", "assigned_date"} \cap DOMAIN data.obj :
        /\ data.obj[k] # NULL
        /\ data.obj[k] # EmptyText
        /\ data.obj[k].c \notin CalendarTexts

\* C15: every stored due_date and assigned_date is a day of the calendar or
\* null, and a POST or PUT whose body carries a non-empty date string that
\* names no day answers with an error and leaves the table as it was.
C15_DatesValidOrAbsent ==
    [][/\ \A id \in DOMAIN tasks', k \in {"due_date", "assigned_date"} :
              tasks'[id][k] = NULL \/ IsCalendarDate(tasks'[id][k])
       /\ \A task_id \in 1..MaxCreated, data \in DateBodies :
              (HasInvalidDate(data) /\ (add_task(data) \/ update_task(task_id, data)))
              => (last'.code >= 400 /\ tasks' = tasks)]_vars

-----------------------------------------------------------------------------
-----------------------------------------------------------------------------
\* The ids of a list of tasks, in the order of the list
IdsOf(list) == [i \in 1..Len(list) |-> list[i].id]

\* C17: with the database reachable, GET /api/tasks answers 200 with the
\* stored tasks and nothing else in ascending id order, the empty array for
\* an empty table; a GET that follows a GET with no write between answers
\* with the same list; a successful PUT leaves the order of the list as it
\* was.
C17_ListIsTheStore ==
    [][/\ (get_tasks /\ dbUp)
          => /\ last'.code = 200
             /\ DOMAIN last'.body = {"array"}
             /\ LET list == last'.body.array
                IN  /\ {list[i].id : i \in 1..Len(list)} = DOMAIN tasks
                    /\ Len(list) = Cardinality(DOMAIN tasks)
                    /\ \A i \in 1..Len(list) : list[i] = Serialise(tasks[list[i].id])
                    /\ \A i, j \in 1..Len(list) : i < j => list[i].id < list[j].id
                    /\ tasks = <<>> => list = <<>>
             /\ (last.op = "get_tasks" /\ last.code = 200) => last'.body = last.body
       /\ \A task_id \in 1..MaxId, data \in Bodies :
              (update_task(task_id, data) /\ last'.code = 200)
              => IdsOf(TaskList') = IdsOf(TaskList)]_vars

-----------------------------------------------------------------------------
\* The value a field holds once the value v of a body is stored in it
Stored(k, v) == IF IsDateField(k) /\ v # NULL THEN Converted[v.c] ELSE v

\* C18: two PUTs to the same stored task are in progress at once, one has
\* committed and not yet responded when the other commits.  Both answer with
\* success, and the task then holds, for every field, the value of the PUT
\* that committed last if its body has the field, else the value of the
\* other PUT if that body has it.
C18_LastWriteWins ==
    [][\A first, second \in 1..THREADS :
          (/\ first # second
           /\ txn[first].pc = "respond" /\ txn[first].op = "update_task"
           /\ txn[second].op = "update_task"
           /\ txn[second].task_id = txn[first].task_id
           /\ commit(second))
          => /\ txn'[second].pc = "respond"
             /\ LET a == txn[first].data.obj
                    b == txn[second].data.obj
                    row == tasks'[txn[second].task_id]
                IN  \A k \in Fields :
                        /\ k \in DOMAIN b => row[k] = Stored(k, b[k])
                        /\ (k \in DOMAIN a /\ k \notin DOMAIN b) => row[k] = Stored(k, a[k])]_vars

-----------------------------------------------------------------------------
\* C19: when the form, updateTaskStatus or updateTaskDate resumes with a
\* successful response it sends the fetch of loadTasks; and once no request
\* or response is in flight, the page's tasks array is the list the store
\* holds, in whatever order the responses were taken.
C19_PageMatchesStoreWhenQuiet ==
    [][/\ \A m \in net :
              (mutation_resumes(m) /\ m.ok)
              => \E f \in net' : f.dir = "request" /\ f.fn = "loadTasks"
       /\ net' = {} => ctasks' = [array |-> TaskList']]_vars

\* C20: a card was dropped on a day of the calendar, the PUT succeeded, and
\* the loadTasks that followed it now resumes with a list that has the task
\* under that day: the calendar then shows the task under that day.
C20_CalendarShowsTheMove ==
    [][\A m \in net :
          (/\ loadTasks_resumes(m)
           /\ m.cause.fn = "updateTaskDate"
           /\ \E i \in 1..Len(ctasks'.array) :
                  /\ ctasks'.array[i].id = m.cause.task_id
                  /\ ctasks'.array[i].assigned_date = Text(m.cause.date))
          => /\ m.cause.task_id \in DOMAIN calendar'
             /\ calendar'[m.cause.task_id] = Text(m.cause.date)]_vars

\* The cards a view holds, over all its lists
CardCount(lists) ==
    LET RECURSIVE Sum(_)
        Sum(S) == IF S = {} THEN 0
                  ELSE LET l == CHOOSE x \in S : TRUE IN Len(lists[l]) + Sum(S \ {l})
    IN  Sum(DOMAIN lists)

\* C21: while the Kanban board is displayed, every task of the page's tasks
\* array has its card in exactly one of the three columns, so the columns
\* together hold as many cards as the array has tasks.
C21_BoardHoldsEveryTask ==
    (view.active = "kanban" /\ IsArray(ctasks))
    => /\ CardCount(view.kanban) = Len(ctasks.array)
       /\ \A i \in 1..Len(ctasks.array) :
              Cardinality({l \in DOMAIN view.kanban :
                              \E j \in 1..Len(view.kanban[l]) :
                                  view.kanban[l][j] = ctasks.array[i]}) = 1

\* The quadrant the rule on priority names
QuadrantOf(priority) ==
    CASE priority = Str("urgent") -> "urgent-important"
      [] priority = Str("high")   -> "urgent-not-important"
      [] priority = Str("medium") -> "not-urgent-important"
      [] OTHER                    -> "not-urgent-not-important"

\* C22: while the matrix is displayed, each quadrant holds exactly the tasks
\* of the page's tasks array whose priority the rule sends there (urgent,
\* high, medium, and low or any other value), in the order of the array: so
\* every task is in exactly one quadrant.
C22_QuadrantByPriority ==
    (view.active = "eisenhower" /\ IsArray(ctasks))
    => /\ \A q \in Quadrants :
              view.matrix[q] = SelectSeq(ctasks.array, LAMBDA t : QuadrantOf(t.priority) = q)
       /\ CardCount(view.matrix) = Len(ctasks.array)

\* The matrix is displayed with a card in each quadrant, one of them of a
\* task whose priority is none of the four.
C22_Witness ==
    /\ view.active = "eisenhower"
    /\ IsArray(ctasks)
    /\ \A q \in Quadrants : view.matrix[q] # <<>>
    /\ \E i \in 1..Len(ctasks.array) : ctasks.array[i].priority = Str("someday")

\* C23: the timer posts the first sample task only when the store holds no
\* task (under SpecViews the store is written only before the page is
\* opened and by the sample tasks themselves, so the store at the timer is
\* the store at page load).
C23_SamplesOnlyOnEmptyStore ==
    [][(sample_timer /\ SamplePost(1) \in net') => tasks = <<>>]_vars

\* C24: when the server handles the request of a drop on the unassigned
\* area for a stored task that has an assigned date, the task's
\* assigned_date becomes absent and its other fields stay as they were.
C24_UnassignedDropClearsDate ==
    [][\A m \in net :
          (/\ serve(m)
           /\ m.fn = "updateTaskDate"
           /\ m.data.obj.assigned_date = NULL
           /\ m.task_id \in DOMAIN tasks
           /\ tasks[m.task_id].assigned_date # NULL)
          => /\ tasks'[m.task_id].assigned_date = NULL
             /\ \A k \in Fields \ {"assigned_date"} :
                    tasks'[m.task_id][k] = tasks[m.task_id][k]]_vars

\* The text and enum fields of a task
TextFields == {"title", "description", "notes", "priority", "status"}

\* C25: a successful PUT whose body gives a text or enum field the empty
\* string leaves the stored value of that field as it was, as a PUT
\* without the key does.
C25_EmptyStringKeepsText ==
    [][(last'.op = "update_task" /\ last'.code = 200)
       => \A data \in EnumBodies :
              update_task(last'.task_id, data)
              => \A k \in DOMAIN data.obj \cap TextFields :
                     data.obj[k] = Str("")
                     => tasks'[last'.task_id][k] = tasks[last'.task_id][k]]_vars

\* C26: a PUT leaves every field its body gives as null as it was stored,
\* the two dates included, whether another client sends it or the page's
\* form does with a date input emptied.
C26_NullKeepsTheField ==
    [][/\ (last'.op = "update_task" /\ last'.task_id \in DOMAIN tasks)
          => \A data \in NullBodies :
                 update_task(last'.task_id, data)
                 => \A k \in DOMAIN data.obj :
                        data.obj[k] = NULL
                        => /\ last'.task_id \in DOMAIN tasks'
                           /\ tasks'[last'.task_id][k] = tasks[last'.task_id][k]
       /\ \A m \in net :
              (/\ m.fn = "submit" /\ m.op = "update_task"
               /\ m.task_id \in DOMAIN tasks
               /\ serve(m))
              => \A k \in DOMAIN m.data.obj :
                     m.data.obj[k] = NULL
                     => /\ m.task_id \in DOMAIN tasks'
                        /\ tasks'[m.task_id][k] = tasks[m.task_id][k]]_vars

\* The form was saved with a date input emptied in it and the PUT answered
\* 200, and the task has both its dates.
C26_Witness ==
    \E m \in net :
        /\ m.dir = "response" /\ m.fn = "submit" /\ m.op = "update_task" /\ m.ok
        /\ last.op = "update_task" /\ last.code = 200 /\ last.task_id = m.task_id
        /\ m.task_id \in DOMAIN tasks
        /\ tasks[m.task_id].due_date = Converted[D_2024_02_15]
        /\ tasks[m.task_id].assigned_date = Converted[D_2024_03_01]

=============================================================================
